---------------------------- MODULE Spec2Model ----------------------------
(***************************************************************************)
(* MsgESS (Message Exchange over Stream Sockets), src/msgess/msgess.py.    *)
(*                                                                         *)
(* One MsgESS instance is modelled together with the stream socket it      *)
(* wraps.  The socket is a loopback byte stream: what sendall() is given   *)
(* is what later recv() calls return, in order and in arbitrary chunks.    *)
(* A foreign peer may also write frames of its own to the same stream.     *)
(*                                                                         *)
(* Bytes are integers 0..255, byte strings are sequences of bytes, str     *)
(* values are sequences of Unicode code points.  A Python value is a       *)
(* record [t |-> type name, items |-> sequence of integers]:               *)
(*   "bytes": the bytes;  "str": the code points;  "int": <<n>>;           *)
(*   "list":  the elements, each a non-negative int or NotSerializable     *)
(*            (an object json.dumps raises TypeError for);                 *)
(*   "dict":  <<k1, v1, k2, v2, ...>>, keys one-character strings given    *)
(*            by their code point, values non-negative ints.               *)
(***************************************************************************)
EXTENDS Integers, Sequences, FiniteSets, TLC

(***************************************************************************)
(* Protocol constants.                                                     *)
(***************************************************************************)
PROTOCOL_VERSION == 2

MessageDataType_BINARY == 1

MessageDataType_STRING == 2

MessageDataType_JSON_ARRAY == 3

MessageDataType_JSON_OBJECT == 4

\* b"MsgESSbegin"
BEGIN_MAGIC == <<77, 115, 103, 69, 83, 83, 98, 101, 103, 105, 110>>

\* b"MsgESSend"
END_MAGIC == <<77, 115, 103, 69, 83, 83, 101, 110, 100>>

HEADER_LENGTH == 25

FOOTER_LENGTH == 9

\* the most bytes one recv() call is asked for
RECV_LIMIT == 16384

NotSerializable == -1

(***************************************************************************)
(* Sequence helpers.                                                       *)
(***************************************************************************)
Min(a, b) == IF a <= b THEN a ELSE b

\* Python's s[i:j] with 0-based, end-exclusive indices, clipped to the sequence
Slice(s, i, j) == SubSeq(s, i + 1, Min(j, Len(s)))

Take(s, k) == SubSeq(s, 1, Min(k, Len(s)))

Drop(s, k) == SubSeq(s, Min(k, Len(s)) + 1, Len(s))

(***************************************************************************)
(* Integers of the 32-bit fields.  An integer n that may not fit in 31     *)
(* bits is held as the pair <<n div 65536, n mod 65536>>: the low half is  *)
(* in 0..65535, the high half is any integer, so 2^32 - 1 is               *)
(* <<65535, 65535>>, 2^32 is <<65536, 0>> and -1 is <<-1, 65535>>.         *)
(*                                                                         *)
(* int.to_bytes(4, byteorder="big", signed=False) raises OverflowError     *)
(* unless 0 <= n < 2^32; int.from_bytes reads the bytes back.              *)
(***************************************************************************)
Wide(n) == <<n \div 65536, n % 65536>>

\* the integer a pair stands for, when it is in 0 .. 2^31 - 1.  A greater one
\* is held as 2^31 - 1, the greatest integer there is here: it is only ever a
\* count of bytes to wait for, far more than any stream here supplies.
Narrow(w) == IF w[1] >= 32768 THEN 2147483647 ELSE w[1] * 65536 + w[2]

FitsUnsigned4(w) == w[1] \in 0..65535

FitsUnsigned1(n) == n \in 0..255

ToBytes4(w) == <<w[1] \div 256, w[1] % 256, w[2] \div 256, w[2] % 256>>

FromBytes4(b) == <<b[1] * 256 + b[2], b[3] * 256 + b[4]>>

(***************************************************************************)
(* zlib.  compress() is modelled by the zlib stream made of one stored     *)
(* deflate block: CMF, FLG, block header 0x01, LEN, NLEN (little-endian),  *)
(* the data, and the Adler-32 checksum (big-endian).  FLG carries the      *)
(* level as zlib writes it.  decompress() accepts exactly such streams     *)
(* (trailing bytes after the checksum are ignored, as zlib.decompress      *)
(* does); every other input is a zlib.error.  Huffman-coded blocks are     *)
(* outside the model.                                                      *)
(***************************************************************************)
RECURSIVE AdlerA(_)
AdlerA(d) ==
    IF d = <<>> THEN 1
    ELSE (AdlerA(SubSeq(d, 1, Len(d) - 1)) + d[Len(d)]) % 65521

RECURSIVE AdlerB(_)
AdlerB(d) ==
    IF d = <<>> THEN 0
    ELSE (AdlerB(SubSeq(d, 1, Len(d) - 1)) + AdlerA(d)) % 65521

\* the checksum b * 65536 + a, as a pair
Adler32(d) == <<AdlerB(d), AdlerA(d)>>

ValidLevel(level) == level \in -1..9

ZlibFlg(level) ==
    IF level \in {0, 1} THEN 1
    ELSE IF level \in 2..5 THEN 94
    ELSE IF level \in {-1, 6} THEN 156
    ELSE 218

ZlibCompress(d, level) ==
    <<120, ZlibFlg(level), 1,
      Len(d) % 256, Len(d) \div 256,
      255 - (Len(d) % 256), 255 - (Len(d) \div 256)>>
    \o d \o ToBytes4(Adler32(d))

ZlibStoredLen(z) == z[4] + 256 * z[5]

ZlibValid(z) ==
    /\ Len(z) >= 11
    /\ z[1] = 120
    /\ (z[1] * 256 + z[2]) % 31 = 0
    /\ (z[2] \div 32) % 2 = 0
    /\ z[3] % 8 = 1
    /\ z[6] + 256 * z[7] = 65535 - ZlibStoredLen(z)
    /\ Len(z) >= 11 + ZlibStoredLen(z)
    /\ FromBytes4(SubSeq(z, 8 + ZlibStoredLen(z), 11 + ZlibStoredLen(z)))
         = Adler32(SubSeq(z, 8, 7 + ZlibStoredLen(z)))

ZlibDecompress(z) == SubSeq(z, 8, 7 + ZlibStoredLen(z))

(***************************************************************************)
(* str.encode("utf-8") and bytes.decode("utf-8").  Encoding raises         *)
(* UnicodeEncodeError for a surrogate code point; decoding is strict       *)
(* (no overlong forms, no surrogates, nothing above U+10FFFF).             *)
(***************************************************************************)
IsSurrogate(c) == c \in 55296..57343

Utf8Encodable(s) == \A i \in 1..Len(s) : ~IsSurrogate(s[i])

Utf8EncodeChar(c) ==
    IF c < 128 THEN <<c>>
    ELSE IF c < 2048 THEN <<192 + (c \div 64), 128 + (c % 64)>>
    ELSE IF c < 65536
      THEN <<224 + (c \div 4096), 128 + ((c \div 64) % 64), 128 + (c % 64)>>
    ELSE <<240 + (c \div 262144), 128 + ((c \div 4096) % 64),
           128 + ((c \div 64) % 64), 128 + (c % 64)>>

RECURSIVE Utf8Encode(_)
Utf8Encode(s) ==
    IF s = <<>> THEN <<>>
    ELSE Utf8EncodeChar(Head(s)) \o Utf8Encode(Tail(s))

Utf8SeqLen(b1) ==
    IF b1 < 128 THEN 1
    ELSE IF b1 \in 194..223 THEN 2
    ELSE IF b1 \in 224..239 THEN 3
    ELSE IF b1 \in 240..244 THEN 4
    ELSE 0

Utf8CodePoint(b, n) ==
    IF n = 1 THEN b[1]
    ELSE IF n = 2 THEN (b[1] - 192) * 64 + (b[2] - 128)
    ELSE IF n = 3
      THEN (b[1] - 224) * 4096 + (b[2] - 128) * 64 + (b[3] - 128)
    ELSE (b[1] - 240) * 262144 + (b[2] - 128) * 4096
         + (b[3] - 128) * 64 + (b[4] - 128)

\* whether b starts with one well-formed UTF-8 sequence
Utf8HeadValid(b) ==
    LET n == Utf8SeqLen(b[1]) IN
    /\ n > 0
    /\ Len(b) >= n
    /\ \A i \in 2..n : b[i] \in 128..191
    /\ LET c == Utf8CodePoint(b, n) IN
         /\ (n = 3 => c >= 2048 /\ ~IsSurrogate(c))
         /\ (n = 4 => c >= 65536 /\ c <= 1114111)

RECURSIVE Utf8Valid(_)
Utf8Valid(b) ==
    \/ b = <<>>
    \/ /\ Utf8HeadValid(b)
       /\ Utf8Valid(Drop(b, Utf8SeqLen(b[1])))

RECURSIVE Utf8Decode(_)
Utf8Decode(b) ==
    IF b = <<>> THEN <<>>
    ELSE <<Utf8CodePoint(b, Utf8SeqLen(b[1]))>>
         \o Utf8Decode(Drop(b, Utf8SeqLen(b[1])))

(***************************************************************************)
(* json.dumps and json.loads on the values of the model: lists of          *)
(* non-negative ints and dicts from one-letter keys to non-negative ints,  *)
(* written the way json.dumps writes them (", " and ": " separators).      *)
(* json.loads also reads a bare int and a one-character string, which are  *)
(* JSON but neither an array nor an object.  Text outside this grammar     *)
(* (nested containers, floats, escapes, literals) is outside the model     *)
(* and is read as a JSONDecodeError.                                       *)
(***************************************************************************)
RECURSIVE IntToStr(_)
IntToStr(n) ==
    IF n < 10 THEN <<48 + n>>
    ELSE IntToStr(n \div 10) \o <<48 + (n % 10)>>

RECURSIVE StrToInt(_)
StrToInt(s) ==
    IF s = <<>> THEN 0
    ELSE 10 * StrToInt(SubSeq(s, 1, Len(s) - 1)) + (s[Len(s)] - 48)

JsonSerializable(v) == \A i \in 1..Len(v.items) : v.items[i] # NotSerializable

RECURSIVE DumpsListItems(_)
DumpsListItems(items) ==
    IF items = <<>> THEN <<>>
    ELSE IF Len(items) = 1 THEN IntToStr(items[1])
    ELSE IntToStr(items[1]) \o <<44, 32>> \o DumpsListItems(Tail(items))

\* a dict key is a one-character string, held as its code point, or an int k,
\* held as IntKey(k)
IntKey(k) == -2 - k

IsIntKey(key) == key <= -2

\* json.dumps writes an int key as the string of its digits
DumpsKey(key) == IF IsIntKey(key) THEN IntToStr(-2 - key) ELSE <<key>>

RECURSIVE DumpsDictItems(_)
DumpsDictItems(items) ==
    IF items = <<>> THEN <<>>
    ELSE <<34>> \o DumpsKey(items[1]) \o <<34, 58, 32>> \o IntToStr(items[2])
         \o (IF Len(items) = 2 THEN <<>>
             ELSE <<44, 32>> \o DumpsDictItems(Drop(items, 2)))

JsonDumps(v) ==
    IF v.t = "list" THEN <<91>> \o DumpsListItems(v.items) \o <<93>>
    ELSE <<123>> \o DumpsDictItems(v.items) \o <<125>>

IsWs(c) == c \in {32, 9, 10, 13}

IsDigit(c) == c \in 48..57

RECURSIVE SkipWs(_, _)
SkipWs(s, i) == IF i <= Len(s) /\ IsWs(s[i]) THEN SkipWs(s, i + 1) ELSE i

RECURSIVE DigitsEnd(_, _)
DigitsEnd(s, i) ==
    IF i <= Len(s) /\ IsDigit(s[i]) THEN DigitsEnd(s, i + 1) ELSE i

\* the index after the integer literal that starts at i; i when there is none
IntEnd(s, i) ==
    IF i > Len(s) \/ ~IsDigit(s[i]) THEN i
    ELSE IF s[i] = 48 THEN i + 1
    ELSE DigitsEnd(s, i)

JsonFail == [ok |-> FALSE, t |-> "none", items |-> <<>>, next |-> 0]

JsonOk(t, items, next) == [ok |-> TRUE, t |-> t, items |-> items, next |-> next]

\* i is where an element is expected
RECURSIVE ParseArrayRest(_, _, _)
ParseArrayRest(s, i, acc) ==
    LET e == IntEnd(s, i)
        j == SkipWs(s, e)
    IN  IF e = i \/ j > Len(s) THEN JsonFail
        ELSE LET items == Append(acc, StrToInt(SubSeq(s, i, e - 1))) IN
             IF s[j] = 93 THEN JsonOk("list", items, j + 1)
             ELSE IF s[j] = 44 THEN ParseArrayRest(s, SkipWs(s, j + 1), items)
             ELSE JsonFail

\* s[i] is "["
ParseArray(s, i) ==
    LET j == SkipWs(s, i + 1) IN
    IF j <= Len(s) /\ s[j] = 93 THEN JsonOk("list", <<>>, j + 1)
    ELSE ParseArrayRest(s, j, <<>>)

\* i is where a key is expected
RECURSIVE ParseObjectRest(_, _, _)
ParseObjectRest(s, i, acc) ==
    IF ~(/\ i + 2 <= Len(s)
         /\ s[i] = 34
         /\ s[i + 1] >= 32 /\ s[i + 1] \notin {34, 92}
         /\ s[i + 2] = 34)
    THEN JsonFail
    ELSE LET j == SkipWs(s, i + 3) IN
         IF j > Len(s) \/ s[j] # 58 THEN JsonFail
         ELSE LET k == SkipWs(s, j + 1)
                  e == IntEnd(s, k)
                  m == SkipWs(s, e)
              IN  IF e = k \/ m > Len(s) THEN JsonFail
                  ELSE LET items == acc \o <<s[i + 1], StrToInt(SubSeq(s, k, e - 1))>> IN
                       IF s[m] = 125 THEN JsonOk("dict", items, m + 1)
                       ELSE IF s[m] = 44
                         THEN ParseObjectRest(s, SkipWs(s, m + 1), items)
                       ELSE JsonFail

\* s[i] is "{"
ParseObject(s, i) ==
    LET j == SkipWs(s, i + 1) IN
    IF j <= Len(s) /\ s[j] = 125 THEN JsonOk("dict", <<>>, j + 1)
    ELSE ParseObjectRest(s, j, <<>>)

ParseValue(s, i) ==
    IF i > Len(s) THEN JsonFail
    ELSE IF s[i] = 91 THEN ParseArray(s, i)
    ELSE IF s[i] = 123 THEN ParseObject(s, i)
    ELSE IF IsDigit(s[i])
      THEN JsonOk("int", <<StrToInt(SubSeq(s, i, IntEnd(s, i) - 1))>>, IntEnd(s, i))
    ELSE IF /\ s[i] = 34 /\ i + 2 <= Len(s) /\ s[i + 2] = 34
            /\ s[i + 1] >= 32 /\ s[i + 1] \notin {34, 92}
      THEN JsonOk("str", <<s[i + 1]>>, i + 3)
    ELSE JsonFail

\* json.loads: leading whitespace, one value, trailing whitespace, nothing else
JsonLoads(s) ==
    LET r == ParseValue(s, SkipWs(s, 1)) IN
    IF r.ok /\ SkipWs(s, r.next) = Len(s) + 1 THEN r ELSE JsonFail

(***************************************************************************)
(* State.                                                                  *)
(***************************************************************************)
VARIABLES
    compress_messages,   \* self._compress_messages
    compression_level,   \* self._compression_level
    stream,              \* bytes written to the socket and not yet returned by recv
    sock,                \* "open", "eof" (the writing end is closed), "error" (broken),
                         \* "closed" (close() was called on it)
    rx,                  \* the receive call in progress, RxIdle when there is none
    result,              \* outcome of the operation that returned last
    inflight,            \* history: the messages whose frames were written, oldest first
    synced,              \* history: every receive so far has returned normally, and
                         \* none was called while another was in progress
    suspended            \* the receive call of another thread, which waits in recv
                         \* while this one runs; RxIdle when there is none

vars == <<compress_messages, compression_level, stream, sock, rx, result,
          inflight, synced, suspended>>

Bytes(items) == [t |-> "bytes", items |-> items]

Str(items) == [t |-> "str", items |-> items]

List(items) == [t |-> "list", items |-> items]

Dict(items) == [t |-> "dict", items |-> items]

NoValue == [t |-> "none", items |-> <<>>]

NoClass == <<0, 0>>

NoMessage == [data_type |-> 0, value |-> NoValue, message_class |-> NoClass,
              length |-> 0]

(***************************************************************************)
(* The outcome of an operation, as its caller sees it: it returned         *)
(* (status "ok") or raised exception class exc with message msg, wrapping  *)
(* original_exception.  The other fields record what the operation did:    *)
(* argument and argument_class, the data and message class a send was      *)
(* called with; written, the arguments of its sendall calls; header,       *)
(* body, footer, the                                                       *)
(* bytes a receive read for each part of the frame; consumed, how many     *)
(* bytes it took from the socket; steps, the decoding steps it ran;        *)
(* expected, the oldest message in flight when it returned.                *)
(***************************************************************************)
NoResult ==
    [op |-> "none", status |-> "none", exc |-> "none", msg |-> "none",
     original_exception |-> "none", value |-> NoValue, message_class |-> NoClass,
     argument |-> NoValue, argument_class |-> NoClass, written |-> <<>>, header |-> <<>>, body |-> <<>>, footer |-> <<>>,
     consumed |-> 0, steps |-> {}, eof_seen |-> FALSE,
     expected |-> NoMessage, aligned |-> FALSE]

Raised(exc, msg, original) ==
    [NoResult EXCEPT !.status = "raised", !.exc = exc, !.msg = msg,
                     !.original_exception = original]

MsgESSException(msg, original) == Raised("MsgESSException", msg, original)

RxIdle ==
    [pc |-> "idle", op |-> "none", data_type |-> 0, n |-> 0, bytes_left |-> 0,
     data |-> <<>>, header |-> <<>>, body |-> <<>>, message |-> <<>>,
     footer |-> <<>>, message_class |-> NoClass, is_message_compressed |-> FALSE,
     consumed |-> 0, steps |-> {}, eof_seen |-> FALSE]

(***************************************************************************)
(* MsgESS.__init__: compression on, level -1; the socket is connected and  *)
(* nothing has been written to it.                                         *)
(***************************************************************************)
Init ==
    /\ compress_messages = TRUE
    /\ compression_level = -1
    /\ stream = <<>>
    /\ sock = "open"
    /\ rx = RxIdle
    /\ result = NoResult
    /\ inflight = <<>>
    /\ synced = TRUE
    /\ suspended = RxIdle

(***************************************************************************)
(* set_message_compression(compress_messages, compression_level=None).     *)
(* level is <<>> for None and <<l>> for the level l.                       *)
(***************************************************************************)
\* the arguments of a set_message_compression call
Settings(enabled, level) == [t |-> "settings", items |-> <<enabled, level>>]

\* mutant: an omitted level puts the level back to the default
set_message_compression_level_reset(enabled, level) ==
    /\ rx.pc = "idle"
    /\ compress_messages' = enabled
    /\ compression_level' = IF level # <<>> THEN level[1] ELSE -1
    /\ result' = [NoResult EXCEPT !.op = "set_message_compression", !.status = "ok",
                                  !.argument = Settings(enabled, level)]
    /\ UNCHANGED <<suspended, stream, sock, rx, inflight, synced>>

set_message_compression(enabled, level) ==
    /\ rx.pc = "idle"
    /\ compress_messages' = enabled
    /\ compression_level' = IF level # <<>> THEN level[1] ELSE compression_level
    /\ result' = [NoResult EXCEPT !.op = "set_message_compression", !.status = "ok",
                                  !.argument = Settings(enabled, level)]
    /\ UNCHANGED <<suspended, stream, sock, rx, inflight, synced>>

(***************************************************************************)
(* The send operations up to the sendall call: the exception raised        *)
(* before it, or the assembled message (status "assembled").               *)
(***************************************************************************)
Assembled(message) == [NoResult EXCEPT !.status = "assembled", !.written = <<message>>]

\* mutant: the flag byte never says "compressed"
CompressedFlagAlwaysZero(compress) == 0

CompressedFlag(compress) == IF compress THEN 1 ELSE 0

\* mutant: the message class is written before the body length
AssembleMessageClassFirst(body, message_class, compress, data_type) ==
    BEGIN_MAGIC
    \o ToBytes4(Wide(PROTOCOL_VERSION))
    \o ToBytes4(message_class)
    \o ToBytes4(Wide(Len(body)))
    \o <<CompressedFlag(compress)>>
    \o <<data_type>>
    \o body
    \o END_MAGIC

AssembleMessage(body, message_class, compress, data_type) ==
    BEGIN_MAGIC
    \o ToBytes4(Wide(PROTOCOL_VERSION))
    \o ToBytes4(Wide(Len(body)))
    \o ToBytes4(message_class)
    \o <<CompressedFlag(compress)>>
    \o <<data_type>>
    \o body
    \o END_MAGIC

prepare_binary_data(binary_data, message_class, data_type) ==
    IF binary_data.t # "bytes"
      THEN MsgESSException("The data sent must be of the 'bytes' type!", "none")
    ELSE IF compress_messages /\ ~ValidLevel(compression_level)
      THEN Raised("zlib.error", "Bad compression level", "none")
    ELSE LET body == IF compress_messages
                       THEN ZlibCompress(binary_data.items, compression_level)
                       ELSE binary_data.items
         IN  IF ~FitsUnsigned4(Wide(Len(body)))
               THEN Raised("OverflowError", "int too big to convert", "none")
             ELSE IF ~FitsUnsigned4(message_class)
               THEN Raised("OverflowError", "int too big to convert", "none")
             ELSE IF ~FitsUnsigned1(data_type)
               THEN Raised("OverflowError", "int too big to convert", "none")
             ELSE Assembled(AssembleMessage(body, message_class,
                                            compress_messages, data_type))

prepare_string(string, message_class, data_type) ==
    IF string.t # "str"
      THEN MsgESSException("The data sent must be of the 'str' type!", "none")
    ELSE IF ~Utf8Encodable(string.items)
      THEN MsgESSException("The sent message's body has an invalid UTF-8 character in it!",
                           "UnicodeEncodeError")
    ELSE prepare_binary_data(Bytes(Utf8Encode(string.items)), message_class, data_type)

\* mutant: the isinstance check of send_json_array is missing
prepare_json_array_unchecked(json_array, message_class) ==
    IF ~JsonSerializable(json_array)
      THEN MsgESSException("Failed to serialize the supplied list to JSON array!",
                           "TypeError")
    ELSE prepare_string(Str(JsonDumps(json_array)), message_class,
                        MessageDataType_JSON_ARRAY)

prepare_json_array(json_array, message_class) ==
    IF json_array.t # "list"
      THEN MsgESSException("The data sent must be of the 'list' type!", "none")
    ELSE IF ~JsonSerializable(json_array)
      THEN MsgESSException("Failed to serialize the supplied list to JSON array!",
                           "TypeError")
    ELSE prepare_string(Str(JsonDumps(json_array)), message_class,
                        MessageDataType_JSON_ARRAY)

prepare_json_object(json_object, message_class) ==
    IF json_object.t # "dict"
      THEN MsgESSException("The data sent must be of the 'dict' type!", "none")
    ELSE IF ~JsonSerializable(json_object)
      THEN MsgESSException("Failed to serialize the supplied list to JSON array!",
                           "TypeError")
    ELSE prepare_string(Str(JsonDumps(json_object)), message_class,
                        MessageDataType_JSON_OBJECT)

\* mutant: the header is written by one sendall call and the rest by another
SendHeaderFirst(op, prepared, data_type, value, message_class) ==
    /\ rx.pc = "idle"
    /\ IF prepared.status = "raised"
         THEN /\ result' = [prepared EXCEPT !.op = op, !.argument = value,
                                            !.argument_class = message_class]
              /\ UNCHANGED <<stream, sock, inflight>>
         ELSE IF sock # "open"
           THEN /\ result' = [MsgESSException("Failed to send the message to the socket!",
                                              "OSError")
                                EXCEPT !.op = op,
                                       !.written = <<Take(prepared.written[1],
                                                          HEADER_LENGTH)>>,
                                       !.argument = value,
                                       !.argument_class = message_class]
                /\ sock' = IF sock = "closed" THEN "closed" ELSE "error"
                /\ UNCHANGED <<stream, inflight>>
         ELSE /\ result' = [prepared EXCEPT
                               !.op = op, !.status = "ok",
                               !.written = <<Take(prepared.written[1], HEADER_LENGTH),
                                             Drop(prepared.written[1], HEADER_LENGTH)>>,
                               !.argument = value,
                               !.argument_class = message_class]
              /\ stream' = stream \o prepared.written[1]
              /\ inflight' = Append(inflight,
                     [data_type |-> data_type, value |-> value,
                      message_class |-> message_class,
                      length |-> Len(prepared.written[1])])
              /\ UNCHANGED sock
    /\ UNCHANGED <<suspended, compress_messages, compression_level, rx, synced>>

(***************************************************************************)
(* self._socket.sendall(message), lines 121-125, and the operation's       *)
(* return.  sendall raises OSError on a socket that is not open.           *)
(***************************************************************************)
Send(op, prepared, data_type, value, message_class) ==
    /\ rx.pc = "idle"
    /\ IF prepared.status = "raised"
         THEN /\ result' = [prepared EXCEPT !.op = op, !.argument = value,
                                            !.argument_class = message_class]
              /\ UNCHANGED <<stream, sock, inflight>>
         ELSE IF sock # "open"
           THEN /\ result' = [MsgESSException("Failed to send the message to the socket!",
                                              "OSError")
                                EXCEPT !.op = op, !.written = prepared.written,
                                       !.argument = value,
                                       !.argument_class = message_class]
                /\ sock' = IF sock = "closed" THEN "closed" ELSE "error"
                /\ UNCHANGED <<stream, inflight>>
         ELSE /\ result' = [prepared EXCEPT !.op = op, !.status = "ok",
                                            !.argument = value,
                                            !.argument_class = message_class]
              /\ stream' = stream \o prepared.written[1]
              /\ inflight' = Append(inflight,
                     [data_type |-> data_type, value |-> value,
                      message_class |-> message_class,
                      length |-> Len(prepared.written[1])])
              /\ UNCHANGED sock
    /\ UNCHANGED <<suspended, compress_messages, compression_level, rx, synced>>

send_binary_data(binary_data, message_class) ==
    Send("send_binary_data",
         prepare_binary_data(binary_data, message_class, MessageDataType_BINARY),
         MessageDataType_BINARY, binary_data, message_class)

send_string(string, message_class) ==
    Send("send_string",
         prepare_string(string, message_class, MessageDataType_STRING),
         MessageDataType_STRING, string, message_class)

send_json_array(json_array, message_class) ==
    Send("send_json_array", prepare_json_array(json_array, message_class),
         MessageDataType_JSON_ARRAY, json_array, message_class)

send_json_object(json_object, message_class) ==
    Send("send_json_object", prepare_json_object(json_object, message_class),
         MessageDataType_JSON_OBJECT, json_object, message_class)

(***************************************************************************)
(* The receive operations.  receive_json_array and receive_json_object     *)
(* call receive_string, which calls receive_binary_data, each passing its  *)
(* own _data_type down.  A call starts by asking for the 25 header bytes.  *)
(***************************************************************************)
ExpectedDataType(op) ==
    IF op = "receive_binary_data" THEN MessageDataType_BINARY
    ELSE IF op = "receive_string" THEN MessageDataType_STRING
    ELSE IF op = "receive_json_array" THEN MessageDataType_JSON_ARRAY
    ELSE MessageDataType_JSON_OBJECT

Receive(op) ==
    /\ rx.pc = "idle"
    /\ rx' = [RxIdle EXCEPT !.pc = "header", !.op = op,
                            !.data_type = ExpectedDataType(op),
                            !.n = HEADER_LENGTH, !.bytes_left = HEADER_LENGTH]
    /\ result' = NoResult
    /\ synced' = (synced /\ suspended.pc = "idle")
    /\ UNCHANGED <<suspended, compress_messages, compression_level, stream, sock,
                   inflight>>

receive_binary_data == Receive("receive_binary_data")

receive_string == Receive("receive_string")

receive_json_array == Receive("receive_json_array")

receive_json_object == Receive("receive_json_object")

(***************************************************************************)
(* What a receive does between two recv calls.  Each operator takes the    *)
(* call's state r and gives [rx |-> the state, res |-> the outcome]: res   *)
(* has status "none" while the call goes on to wait for more bytes.        *)
(***************************************************************************)
Continue(r) == [rx |-> r, res |-> NoResult]

Fail(r, msg, original) == [rx |-> r, res |-> MsgESSException(msg, original)]

\* mutant: the message class of the frame is not handed back
ReturnWithoutClass(r, value) ==
    [rx |-> r, res |-> [NoResult EXCEPT !.status = "ok", !.value = value]]

Return(r, value) ==
    [rx |-> r,
     res |-> [NoResult EXCEPT !.status = "ok", !.value = value,
                              !.message_class = r.message_class]]

\* receive_json_array / receive_json_object, after receive_string returned message
JsonReturn(r, message) ==
    LET r1 == [r EXCEPT !.steps = @ \cup {"json"}]
        deserialized_json == JsonLoads(message)
        array == r.op = "receive_json_array"
    IN  IF ~deserialized_json.ok
          THEN Fail(r1, IF array THEN "Failed to decode the received JSON array!"
                        ELSE "Failed to decode the received JSON object!",
                    "JSONDecodeError")
        ELSE IF array /\ deserialized_json.t # "list"
          THEN Fail(r1, "The received message doesn't contain a JSON array!", "none")
        ELSE IF ~array /\ deserialized_json.t # "dict"
          THEN Fail(r1, "The received message doesn't contain a JSON object!", "none")
        ELSE Return(r1, [t |-> deserialized_json.t, items |-> deserialized_json.items])

\* mutant: the bytes are taken for characters one by one, not decoded as UTF-8
StringReturnBytewise(r) ==
    LET r1 == [r EXCEPT !.steps = @ \cup {"utf8"}] IN
    IF r.op = "receive_string" THEN Return(r1, Str(r.message))
    ELSE JsonReturn(r1, r.message)

\* receive_string, after receive_binary_data returned r.message
StringReturn(r) ==
    LET r1 == [r EXCEPT !.steps = @ \cup {"utf8"}] IN
    IF ~Utf8Valid(r.message)
      THEN Fail(r1, "The received message's body has an invalid UTF-8 character in it!",
                "UnicodeDecodeError")
    ELSE IF r.op = "receive_string" THEN Return(r1, Str(Utf8Decode(r.message)))
    ELSE JsonReturn(r1, Utf8Decode(r.message))

\* mutant: the footer is read and not compared
FooterReadUnchecked(r) ==
    LET r1 == [r EXCEPT !.footer = r.data] IN
    IF r.op = "receive_binary_data" THEN Return(r1, Bytes(r.message))
    ELSE StringReturn(r1)

\* lines 160-164: the footer has been read
FooterRead(r) ==
    LET r1 == [r EXCEPT !.footer = r.data] IN
    IF r.data # END_MAGIC
      THEN Fail(r1, "The received message has an invalid footer!", "none")
    ELSE IF r.op = "receive_binary_data" THEN Return(r1, Bytes(r.message))
    ELSE StringReturn(r1)

\* mutant: the call returns after the body, leaving the footer in the stream
BodyReadWithoutFooter(r) ==
    LET r1 == [r EXCEPT !.body = r.data, !.message = r.data] IN
    IF r.op = "receive_binary_data" THEN Return(r1, Bytes(r1.message))
    ELSE StringReturn(r1)

\* mutant: the receiver's own compression setting decides, not the frame's flag
BodyReadLocalSetting(r) ==
    LET r1 == [r EXCEPT !.body = r.data] IN
    IF compress_messages /\ ~ZlibValid(r.data)
      THEN Fail([r1 EXCEPT !.steps = @ \cup {"decompress"}],
                "Failed to decompress the received message's body!", "zlib.error")
    ELSE Continue([r1 EXCEPT
             !.pc = "footer",
             !.message = IF compress_messages THEN ZlibDecompress(r.data)
                         ELSE r.data,
             !.steps = IF compress_messages THEN @ \cup {"decompress"} ELSE @,
             !.n = FOOTER_LENGTH, !.bytes_left = FOOTER_LENGTH, !.data = <<>>])

\* mutant: the body is never decompressed
BodyReadRaw(r) ==
    LET r1 == [r EXCEPT !.body = r.data] IN
    Continue([r1 EXCEPT !.pc = "footer", !.message = r.data,
                        !.n = FOOTER_LENGTH, !.bytes_left = FOOTER_LENGTH,
                        !.data = <<>>])

\* lines 152-160: the body has been read
BodyRead(r) ==
    LET r1 == [r EXCEPT !.body = r.data] IN
    IF r.is_message_compressed /\ ~ZlibValid(r.data)
      THEN Fail([r1 EXCEPT !.steps = @ \cup {"decompress"}],
                "Failed to decompress the received message's body!", "zlib.error")
    ELSE Continue([r1 EXCEPT
             !.pc = "footer",
             !.message = IF r.is_message_compressed THEN ZlibDecompress(r.data)
                         ELSE r.data,
             !.steps = IF r.is_message_compressed THEN @ \cup {"decompress"} ELSE @,
             !.n = FOOTER_LENGTH, !.bytes_left = FOOTER_LENGTH, !.data = <<>>])

IsMessageCompressed(header) == FromBytes4(<<0, 0, 0>> \o Slice(header, 23, 24)) # <<0, 0>>

\* mutant: the protocol version is not compared
HeaderReadVersionUnchecked(r) ==
    LET header == r.data
        r1 == [r EXCEPT !.header = header]
    IN  IF Slice(header, 0, 11) # BEGIN_MAGIC
          THEN Fail(r1, "The received message has an invalid header!", "none")
        ELSE IF FromBytes4(<<0, 0, 0>> \o Slice(header, 24, 25)) # Wide(r.data_type)
          THEN Fail(r1, "The received message has an invalid data type!", "none")
        ELSE LET message_length == Narrow(FromBytes4(Slice(header, 15, 19)))
                 r2 == [r1 EXCEPT
                          !.pc = "body",
                          !.message_class = FromBytes4(Slice(header, 19, 23)),
                          !.is_message_compressed = IsMessageCompressed(header),
                          !.n = message_length, !.bytes_left = message_length,
                          !.data = <<>>]
             IN  IF message_length > 0 THEN Continue(r2) ELSE BodyRead(r2)

\* mutant: the data type is not compared
HeaderReadTypeUnchecked(r) ==
    LET header == r.data
        r1 == [r EXCEPT !.header = header]
    IN  IF Slice(header, 0, 11) # BEGIN_MAGIC
          THEN Fail(r1, "The received message has an invalid header!", "none")
        ELSE IF FromBytes4(Slice(header, 11, 15)) # Wide(PROTOCOL_VERSION)
          THEN Fail(r1, "The remote host uses an incompatible protocol version!", "none")
        ELSE LET message_length == Narrow(FromBytes4(Slice(header, 15, 19)))
                 r2 == [r1 EXCEPT
                          !.pc = "body",
                          !.message_class = FromBytes4(Slice(header, 19, 23)),
                          !.is_message_compressed = IsMessageCompressed(header),
                          !.n = message_length, !.bytes_left = message_length,
                          !.data = <<>>]
             IN  IF message_length > 0 THEN Continue(r2) ELSE BodyRead(r2)

\* lines 137-152: the header has been read
HeaderRead(r) ==
    LET header == r.data
        r1 == [r EXCEPT !.header = header]
    IN  IF Slice(header, 0, 11) # BEGIN_MAGIC
          THEN Fail(r1, "The received message has an invalid header!", "none")
        ELSE IF FromBytes4(Slice(header, 11, 15)) # Wide(PROTOCOL_VERSION)
          THEN Fail(r1, "The remote host uses an incompatible protocol version!", "none")
        ELSE IF FromBytes4(<<0, 0, 0>> \o Slice(header, 24, 25)) # Wide(r.data_type)
          THEN Fail(r1, "The received message has an invalid data type!", "none")
        ELSE LET message_length == Narrow(FromBytes4(Slice(header, 15, 19)))
                 r2 == [r1 EXCEPT
                          !.pc = "body",
                          !.message_class = FromBytes4(Slice(header, 19, 23)),
                          !.is_message_compressed = IsMessageCompressed(header),
                          !.n = message_length, !.bytes_left = message_length,
                          !.data = <<>>]
             IN  IF message_length > 0 THEN Continue(r2) ELSE BodyRead(r2)

\* mutant: the collected length is not compared with n
LoopEndedUnchecked(r) ==
    IF r.pc = "header" THEN HeaderRead(r)
    ELSE IF r.pc = "body" THEN BodyRead(r)
    ELSE FooterRead(r)

\* lines 289-292 and the caller's next lines: the while loop has ended
LoopEnded(r) ==
    IF r.n # Len(r.data)
      THEN [rx |-> r,
            res |-> Raised("RuntimeError",
                "The OS has received a different number of bytes than it was requested!",
                "none")]
    ELSE IF r.pc = "header" THEN HeaderRead(r)
    ELSE IF r.pc = "body" THEN BodyRead(r)
    ELSE FooterRead(r)

(***************************************************************************)
(* The receive call returns or raises: its outcome, with what the call     *)
(* read, becomes the result the caller sees.                               *)
(***************************************************************************)
Finish(r, res) ==
    /\ rx' = RxIdle
    /\ result' = [res EXCEPT !.op = r.op, !.header = r.header, !.body = r.body,
                             !.footer = r.footer, !.consumed = r.consumed,
                             !.steps = r.steps, !.eof_seen = r.eof_seen,
                             !.expected = IF inflight # <<>> THEN Head(inflight)
                                          ELSE NoMessage,
                             !.aligned = synced /\ inflight # <<>>]
    /\ inflight' = IF inflight # <<>> THEN Tail(inflight) ELSE inflight
    /\ synced' = (synced /\ res.status = "ok")

(***************************************************************************)
(* One iteration of the loop of _receive_n_bytes_from_socket, lines        *)
(* 280-287, for each thing recv can do, followed by what the call does     *)
(* until its next recv.                                                    *)
(***************************************************************************)
\* mutant: every recv asks for 16384 bytes, however few are missing
RecvRequestWhole(r) == RECV_LIMIT

RecvRequest(r) == Min(RECV_LIMIT, r.bytes_left)

\* recv returned recvd_length, which may be empty
Received(recvd_length) ==
    LET r == [rx EXCEPT !.data = @ \o recvd_length,
                        !.bytes_left = @ - Len(recvd_length),
                        !.consumed = @ + Len(recvd_length),
                        !.eof_seen = (recvd_length = <<>>)]
    IN  IF r.bytes_left > 0
          THEN /\ rx' = r
               /\ UNCHANGED <<result, inflight, synced>>
        ELSE LET a == LoopEnded(r) IN
             IF a.res.status = "none"
               THEN /\ rx' = a.rx
                    /\ UNCHANGED <<result, inflight, synced>>
             ELSE Finish(a.rx, a.res)

\* recv returns the next k bytes of the stream
socket_recv(k) ==
    /\ rx.pc \in {"header", "body", "footer"}
    /\ sock # "closed"
    /\ k \in 1..Len(stream)
    /\ Received(Take(stream, k))
    /\ stream' = Drop(stream, k)
    /\ UNCHANGED <<suspended, compress_messages, compression_level, sock>>

\* recv returns b"": the stream has ended
socket_recv_eof ==
    /\ rx.pc \in {"header", "body", "footer"}
    /\ stream = <<>>
    /\ sock = "eof"
    /\ Received(<<>>)
    /\ UNCHANGED <<suspended, compress_messages, compression_level, stream, sock>>

\* mutant: the OSError of recv is swallowed and the loop goes on to recv again
socket_recv_error_retried ==
    /\ rx.pc \in {"header", "body", "footer"}
    /\ stream = <<>>
    /\ sock \in {"open", "error"}
    /\ sock' = "error"
    /\ UNCHANGED <<suspended, compress_messages, compression_level, stream, rx, result,
                   inflight, synced>>

\* recv raises OSError
socket_recv_error ==
    /\ rx.pc \in {"header", "body", "footer"}
    /\ stream = <<>>
    /\ sock \in {"open", "error"}
    /\ Finish(rx, MsgESSException("Failed to receive data from the socket!", "OSError"))
    /\ sock' = "error"
    /\ UNCHANGED <<suspended, compress_messages, compression_level, stream>>

\* the writing end of the stream is shut down once everything written was read
socket_shutdown ==
    /\ sock = "open"
    /\ stream = <<>>
    /\ sock' = "eof"
    /\ UNCHANGED <<suspended, compress_messages, compression_level, stream, rx, result,
                   inflight, synced>>

\* recv on a socket that was closed raises OSError (bad file descriptor)
socket_recv_closed ==
    /\ rx.pc \in {"header", "body", "footer"}
    /\ sock = "closed"
    /\ Finish(rx, MsgESSException("Failed to receive data from the socket!", "OSError"))
    /\ UNCHANGED <<suspended, compress_messages, compression_level, stream, sock>>

(***************************************************************************)
(* Closing.  The class has get_socket and no method that closes:           *)
(* tests/_test_client.py closes the socket it gets from get_socket,        *)
(* tests/_test_server.py calls msgess_.close_connection(), an attribute    *)
(* the class does not have.                                                *)
(***************************************************************************)
close_connection ==
    /\ rx.pc = "idle"
    /\ result' = [Raised("AttributeError",
                         "'MsgESS' object has no attribute 'close_connection'", "none")
                    EXCEPT !.op = "close_connection"]
    /\ UNCHANGED <<suspended, compress_messages, compression_level, stream, sock, rx,
                   inflight, synced>>

\* msgess_.get_socket().close(): the caller closes the socket itself
get_socket_close ==
    /\ rx.pc = "idle"
    /\ sock # "closed"
    /\ sock' = "closed"
    /\ result' = [NoResult EXCEPT !.op = "get_socket", !.status = "ok"]
    /\ UNCHANGED <<suspended, compress_messages, compression_level, stream, rx, inflight, synced>>

(***************************************************************************)
(* Two threads use the instance.  A thread inside a receive waits in recv, *)
(* line 282, where the interpreter lets the other thread run: the call     *)
(* that waits and the call that runs change places.                        *)
(***************************************************************************)
switch_thread ==
    /\ rx # suspended
    /\ rx' = suspended
    /\ suspended' = rx
    /\ UNCHANGED <<compress_messages, compression_level, stream, sock, result,
                   inflight, synced>>

(***************************************************************************)
(* A foreign peer writes a frame of its own making to the stream.          *)
(***************************************************************************)
RawFrame(f) ==
    f.begin \o ToBytes4(f.version) \o ToBytes4(f.length) \o ToBytes4(f.message_class)
    \o <<f.flag, f.data_type>> \o f.body \o f.end

peer_write(frame) ==
    /\ sock = "open"
    /\ stream' = stream \o frame
    /\ inflight' = Append(inflight, [NoMessage EXCEPT !.length = Len(frame)])
    /\ UNCHANGED <<suspended, compress_messages, compression_level, sock, rx, result, synced>>

(***************************************************************************)
(* Bounds and inputs.                                                      *)
(***************************************************************************)
\* frames written and not yet handed to a receive that returned
MaxInFlight == 1

U32Max == <<65535, 65535>>

LevelInputs == {<<>>, <<9>>, <<10>>}

BinaryInputs ==
    {[value |-> Bytes(<<>>), message_class |-> Wide(0)],
     [value |-> Bytes(<<0, 255>>), message_class |-> U32Max],
     [value |-> Bytes(<<0, 255>>), message_class |-> <<65536, 0>>],
     [value |-> Bytes(<<7>>), message_class |-> <<-1, 65535>>],
     [value |-> Str(<<97>>), message_class |-> Wide(42)]}

StringInputs ==
    {[value |-> Str(<<104, 233>>), message_class |-> Wide(42)],
     [value |-> Str(<<55296>>), message_class |-> Wide(42)],
     [value |-> Bytes(<<97>>), message_class |-> Wide(42)]}

ArrayInputs ==
    {[value |-> List(<<1, 20>>), message_class |-> U32Max],
     [value |-> List(<<NotSerializable>>), message_class |-> Wide(7)],
     [value |-> Dict(<<120, 1>>), message_class |-> Wide(7)]}

ObjectInputs ==
    {[value |-> Dict(<<120, 1>>), message_class |-> Wide(42)],
     [value |-> Dict(<<120, NotSerializable>>), message_class |-> Wide(42)],
     [value |-> Dict(<<IntKey(7), 1>>), message_class |-> Wide(456)],
     [value |-> List(<<1, 20>>), message_class |-> Wide(42)]}

\* b"hi", class 7, not compressed, as a foreign peer would frame it
GoodRaw ==
    [begin |-> BEGIN_MAGIC, version |-> Wide(PROTOCOL_VERSION), length |-> Wide(2),
     message_class |-> Wide(7), flag |-> 0, data_type |-> MessageDataType_BINARY,
     body |-> <<104, 105>>, end |-> END_MAGIC]

\* {"x": 1}
ObjectText == <<123, 34, 120, 34, 58, 32, 49, 125>>

RawFrames ==
    {RawFrame(GoodRaw),
     \* a wrong begin marker, the body missing
     RawFrame([GoodRaw EXCEPT !.begin = <<77, 115, 103, 69, 83, 83, 98, 101, 103, 105, 78>>,
                              !.length = Wide(1000), !.body = <<>>, !.end = <<>>]),
     \* another protocol version, the declared body missing
     RawFrame([GoodRaw EXCEPT !.version = Wide(1), !.length = <<32767, 65535>>,
                              !.body = <<>>, !.end = <<>>]),
     \* another protocol version, the frame complete
     RawFrame([GoodRaw EXCEPT !.version = <<1, 2>>]),
     \* compressed flag 2, the body a zlib stream
     RawFrame([GoodRaw EXCEPT !.flag = 2, !.length = Wide(13),
                              !.body = ZlibCompress(<<104, 105>>, 6)]),
     \* compressed flag 2, the body not a zlib stream
     RawFrame([GoodRaw EXCEPT !.flag = 2]),
     \* compressed flag 1, the checksum of the zlib stream damaged
     RawFrame([GoodRaw EXCEPT !.flag = 1, !.length = Wide(13),
                              !.body = [ZlibCompress(<<104, 105>>, 6) EXCEPT ![13] = 0]]),
     \* an unknown data type
     RawFrame([GoodRaw EXCEPT !.data_type = 5]),
     \* a JSON object
     RawFrame([GoodRaw EXCEPT !.data_type = MessageDataType_JSON_OBJECT,
                              !.length = Wide(8), !.body = ObjectText]),
     \* a JSON object tagged as a JSON array
     RawFrame([GoodRaw EXCEPT !.data_type = MessageDataType_JSON_ARRAY,
                              !.length = Wide(8), !.body = ObjectText]),
     \* text that is not JSON, tagged as a JSON array
     RawFrame([GoodRaw EXCEPT !.data_type = MessageDataType_JSON_ARRAY,
                              !.length = Wide(3), !.body = <<91, 49, 44>>]),
     \* bytes that are not UTF-8, tagged as a string
     RawFrame([GoodRaw EXCEPT !.data_type = MessageDataType_STRING,
                              !.length = Wide(1), !.body = <<255>>]),
     \* a wrong end marker
     RawFrame([GoodRaw EXCEPT !.end = <<77, 115, 103, 69, 83, 83, 101, 110, 68>>]),
     \* a declared length one more than the body
     RawFrame([GoodRaw EXCEPT !.length = Wide(3)]),
     \* the first 10 bytes of a header
     Take(RawFrame(GoodRaw), 10)}

\* the stream is in step and has room for a frame
CanSend(room) == synced /\ Len(inflight) < room

\* a send that raises before sendall needs no room
MaySend(prepared, room) == prepared.status = "raised" \/ CanSend(room)

(***************************************************************************)
(* The instance over a loopback stream: the application calls the          *)
(* operations one at a time.                                               *)
(***************************************************************************)
SendSome(binary, string, array, object, room) ==
    \/ \E i \in binary :
          /\ MaySend(prepare_binary_data(i.value, i.message_class,
                                         MessageDataType_BINARY), room)
          /\ send_binary_data(i.value, i.message_class)
    \/ \E i \in string :
          /\ MaySend(prepare_string(i.value, i.message_class,
                                    MessageDataType_STRING), room)
          /\ send_string(i.value, i.message_class)
    \/ \E i \in array :
          /\ MaySend(prepare_json_array(i.value, i.message_class), room)
          /\ send_json_array(i.value, i.message_class)
    \/ \E i \in object :
          /\ MaySend(prepare_json_object(i.value, i.message_class), room)
          /\ send_json_object(i.value, i.message_class)

ReceiveSome ==
    \/ receive_binary_data
    \/ receive_string
    \/ receive_json_array
    \/ receive_json_object

Next ==
    \/ \E enabled \in BOOLEAN, level \in LevelInputs :
          set_message_compression(enabled, level)
    \/ SendSome(BinaryInputs, StringInputs, ArrayInputs, ObjectInputs, MaxInFlight)
    \/ ReceiveSome
    \/ \E k \in 1..Min(RecvRequest(rx), Len(stream)) : socket_recv(k)
    \/ socket_recv_eof
    \/ socket_recv_error
    \/ socket_shutdown

Spec == Init /\ [][Next]_vars

(***************************************************************************)
(* The instance reading what a foreign peer writes: frames that are not    *)
(* MsgESS', which may arrive while a receive is waiting.                   *)
(***************************************************************************)
NextPeer ==
    \/ \E frame \in RawFrames : CanSend(MaxInFlight) /\ peer_write(frame)
    \/ ReceiveSome
    \/ \E k \in 1..Min(RecvRequest(rx), Len(stream)) : socket_recv(k)
    \/ socket_recv_eof
    \/ socket_recv_error
    \/ socket_shutdown

SpecPeer == Init /\ [][NextPeer]_vars

(***************************************************************************)
(* The instance over a loopback stream that holds several frames at once;  *)
(* the application may turn compression off, as tests/_test_client.py      *)
(* does.                                                                   *)
(***************************************************************************)
StreamBinaryInputs == {[value |-> Bytes(<<0, 255>>), message_class |-> U32Max]}

StreamStringInputs == {[value |-> Str(<<104, 233>>), message_class |-> Wide(42)]}

StreamArrayInputs == {[value |-> List(<<1, 20>>), message_class |-> Wide(7)]}

StreamObjectInputs == {[value |-> Dict(<<120, 1>>), message_class |-> Wide(42)]}

NextStream ==
    \/ set_message_compression(FALSE, <<>>)
    \/ SendSome(StreamBinaryInputs, StreamStringInputs, StreamArrayInputs,
                StreamObjectInputs, MaxInFlight + 1)
    \/ ReceiveSome
    \/ \E k \in 1..Min(RecvRequest(rx), Len(stream)) : socket_recv(k)

SpecStream == Init /\ [][NextStream]_vars

(***************************************************************************)
(* The instance over a loopback stream whose user closes the connection.   *)
(***************************************************************************)
NextClose ==
    \/ SendSome(StreamBinaryInputs, StreamStringInputs, StreamArrayInputs,
                StreamObjectInputs, MaxInFlight)
    \/ ReceiveSome
    \/ \E k \in 1..Min(RecvRequest(rx), Len(stream)) : socket_recv(k)
    \/ socket_recv_closed
    \/ close_connection
    \/ get_socket_close

SpecClose == Init /\ [][NextClose]_vars

(***************************************************************************)
(* _receive_n_bytes_from_socket at work: receive_binary_data reads         *)
(* well-formed frames, several of which may be in the stream at once, with *)
(* an empty body (n = 0), a short body, and a declared body of 20000 bytes *)
(* (more than one recv may ask for) of which only the beginning arrives.   *)
(***************************************************************************)
AccumulateFrames ==
    {RawFrame(GoodRaw),
     RawFrame([GoodRaw EXCEPT !.length = Wide(0), !.body = <<>>]),
     RawFrame([GoodRaw EXCEPT !.length = Wide(20000)])}

NextAccumulate ==
    \/ \E frame \in AccumulateFrames : CanSend(MaxInFlight + 1) /\ peer_write(frame)
    \/ receive_binary_data
    \/ \E k \in 1..Min(RecvRequest(rx), Len(stream)) : socket_recv(k)

SpecAccumulate == Init /\ [][NextAccumulate]_vars

(***************************************************************************)
(* The same over a transport that misbehaves: recv may return more bytes   *)
(* than it was asked for.                                                  *)
(***************************************************************************)
NextMisbehaving ==
    \/ \E frame \in AccumulateFrames : CanSend(MaxInFlight + 1) /\ peer_write(frame)
    \/ receive_binary_data
    \/ \E k \in 1..Len(stream) : socket_recv(k)

SpecMisbehaving == Init /\ [][NextMisbehaving]_vars

(***************************************************************************)
(* The instance over a connection that breaks: the peer's frame may stop   *)
(* after 30 of its bytes, recv and sendall may raise OSError.              *)
(***************************************************************************)
CutFrame == Take(RawFrame(GoodRaw), 30)

NextTransport ==
    \/ SendSome(StreamBinaryInputs, StreamStringInputs, StreamArrayInputs,
                StreamObjectInputs, MaxInFlight)
    \/ CanSend(MaxInFlight) /\ peer_write(CutFrame)
    \/ ReceiveSome
    \/ \E k \in 1..Min(RecvRequest(rx), Len(stream)) : socket_recv(k)
    \/ socket_recv_error
    \/ socket_shutdown

SpecTransport == Init /\ [][NextTransport]_vars

(***************************************************************************)
(* Two threads receive binary messages from one instance, with no lock     *)
(* around the calls; the frames in the stream are all well-formed.         *)
(***************************************************************************)
\* recv gives all it was asked for and the stream has, or half of that
ConcurrentChunks ==
    LET all == Min(RecvRequest(rx), Len(stream)) IN {all, (all + 1) \div 2}

NextConcurrent ==
    \/ \E i \in StreamBinaryInputs :
          /\ CanSend(MaxInFlight + 1)
          /\ send_binary_data(i.value, i.message_class)
    \/ receive_binary_data
    \/ \E k \in ConcurrentChunks : socket_recv(k)
    \/ switch_thread

SpecConcurrent == Init /\ [][NextConcurrent]_vars

(***************************************************************************)
(* The sending side alone: every kind of argument the send operations      *)
(* take or refuse, under every compression setting, on a socket that may   *)
(* be shut down; what was sent stays in the stream.                        *)
(***************************************************************************)
\* no level, and the level zlib.compress refuses
SendLevelInputs == {<<>>, <<10>>}

NextSend ==
    \/ \E enabled \in BOOLEAN, level \in SendLevelInputs :
          set_message_compression(enabled, level)
    \/ SendSome(BinaryInputs, StringInputs, ArrayInputs, ObjectInputs, MaxInFlight + 1)
    \/ socket_shutdown

SpecSend == Init /\ [][NextSend]_vars

(***************************************************************************)
(* Properties.                                                             *)
(***************************************************************************)
ReceiveOps ==
    {"receive_binary_data", "receive_string", "receive_json_array",
     "receive_json_object"}

SendOps == {"send_binary_data", "send_string", "send_json_array", "send_json_object"}

InvalidHeaderMsg == "The received message has an invalid header!"

IncompatibleVersionMsg == "The remote host uses an incompatible protocol version!"

InvalidDataTypeMsg == "The received message has an invalid data type!"

\* the four bytes of protocol version 2
VersionBytes == <<0, 0, 0, 2>>

\* the data type each receive operation accepts, by the protocol's table
TagOf(op) ==
    IF op \in {"receive_binary_data", "send_binary_data"} THEN 1
    ELSE IF op \in {"receive_string", "send_string"} THEN 2
    ELSE IF op \in {"receive_json_array", "send_json_array"} THEN 3
    ELSE 4

\* the receive that returned last read a whole header
HeaderSeen == result.op \in ReceiveOps /\ Len(result.header) = HEADER_LENGTH

InLoop == rx.pc \in {"header", "body", "footer"}

(* C1: binary round trip.  A receive_binary_data that starts at the frame  *)
(* send_binary_data(b, c) wrote returns (b, c) exactly, whether the sender *)
(* compressed the body or not, unless the socket itself failed.            *)
C1_BinaryRoundTrip ==
    (/\ result.op = "receive_binary_data"
     /\ result.aligned
     /\ result.expected.data_type = MessageDataType_BINARY
     /\ result.original_exception # "OSError")
    => /\ result.status = "ok"
       /\ result.value = result.expected.value
       /\ result.message_class = result.expected.message_class

\* a compressed two-byte message of class 2^32 - 1 has made the round trip
C1_Witness ==
    /\ result.op = "receive_binary_data"
    /\ result.status = "ok"
    /\ result.aligned
    /\ result.value = Bytes(<<0, 255>>)
    /\ result.message_class = U32Max
    /\ "decompress" \in result.steps

(* C2: premature close.  Once recv has returned a zero-length result with  *)
(* bytes of the header, body or footer still missing, the receive has      *)
(* ended (with a MsgESSException): it is never still in its loop.          *)
C2_PrematureCloseFails == ~(InLoop /\ rx.eof_seen /\ rx.bytes_left > 0)

(* C3: ordering.  With several frames in the stream, a receive that starts *)
(* at the oldest frame not yet received, with the operation of that        *)
(* frame's type, returns that frame's message and class and has consumed   *)
(* exactly the 25 + bodyLength + 9 bytes of that frame, however recv       *)
(* splits the stream.                                                      *)
C3_Ordering ==
    (/\ result.op \in ReceiveOps
     /\ result.aligned
     /\ result.expected.data_type = TagOf(result.op))
    => /\ result.status = "ok"
       /\ result.value = result.expected.value
       /\ result.message_class = result.expected.message_class
       /\ result.consumed = result.expected.length
       /\ result.consumed = HEADER_LENGTH + Len(result.body) + FOOTER_LENGTH

\* a message was returned while a different, later one waits in the stream
C3_Witness ==
    /\ result.op \in ReceiveOps
    /\ result.status = "ok"
    /\ result.aligned
    /\ inflight # <<>>
    /\ inflight[1].value # result.value
    /\ Len(stream) = inflight[1].length

(* C4: all-or-nothing validation.  A receive returns a payload only if the *)
(* frame it read has the begin marker, protocol version 2, the data type   *)
(* of the operation and the end marker.                                    *)
C4_AllOrNothing ==
    (result.op \in ReceiveOps /\ result.status = "ok")
    => /\ Len(result.header) = HEADER_LENGTH
       /\ SubSeq(result.header, 1, 11) = BEGIN_MAGIC
       /\ SubSeq(result.header, 12, 15) = VersionBytes
       /\ result.header[25] = TagOf(result.op)
       /\ result.footer = END_MAGIC

\* a foreign peer's well-formed frame was accepted
C4_Witness ==
    /\ result.op = "receive_binary_data"
    /\ result.status = "ok"
    /\ result.value = Bytes(<<104, 105>>)
    /\ result.expected = [NoMessage EXCEPT !.length = 36]

(* C5: header checks precede length trust.  A frame with a wrong begin     *)
(* marker fails with the invalid-header error, one with the right marker   *)
(* and a wrong version with the incompatible-version error, in both cases  *)
(* with exactly the 25 header bytes consumed and without the call ever     *)
(* asking for the body, whatever the body length field says.               *)
C5_HeaderChecksFirst ==
    /\ rx.pc \in {"body", "footer"}
         => /\ SubSeq(rx.header, 1, 11) = BEGIN_MAGIC
            /\ SubSeq(rx.header, 12, 15) = VersionBytes
    /\ (HeaderSeen /\ SubSeq(result.header, 1, 11) # BEGIN_MAGIC)
         => /\ result.status = "raised"
            /\ result.exc = "MsgESSException"
            /\ result.msg = InvalidHeaderMsg
            /\ result.consumed = HEADER_LENGTH
            /\ result.body = <<>> /\ result.footer = <<>>
    /\ (/\ HeaderSeen
        /\ SubSeq(result.header, 1, 11) = BEGIN_MAGIC
        /\ SubSeq(result.header, 12, 15) # VersionBytes)
         => /\ result.status = "raised"
            /\ result.exc = "MsgESSException"
            /\ result.msg = IncompatibleVersionMsg
            /\ result.consumed = HEADER_LENGTH
            /\ result.body = <<>> /\ result.footer = <<>>

\* a wrong version failed although the body the header declares never came
C5_Witness ==
    /\ HeaderSeen
    /\ result.msg = IncompatibleVersionMsg
    /\ result.consumed = HEADER_LENGTH
    /\ SubSeq(result.header, 16, 19) = <<127, 255, 255, 255>>
    /\ stream = <<>>

(* C6: data-type enforcement.  In each of the four receive operations a    *)
(* frame (with a good marker and version) whose data type is not the       *)
(* operation's fails with the invalid-data-type error, its body neither    *)
(* read, decompressed, UTF-8-decoded nor JSON-parsed; so receive_json_array*)
(* on a JSON object frame fails with that error, not with a shape error.   *)
C6_DataTypeEnforced ==
    /\ rx.pc \in {"body", "footer"} => rx.header[25] = TagOf(rx.op)
    /\ (/\ HeaderSeen
        /\ SubSeq(result.header, 1, 11) = BEGIN_MAGIC
        /\ SubSeq(result.header, 12, 15) = VersionBytes
        /\ result.header[25] # TagOf(result.op))
         => /\ result.status = "raised"
            /\ result.exc = "MsgESSException"
            /\ result.msg = InvalidDataTypeMsg
            /\ result.steps = {}
            /\ result.body = <<>>

\* receive_json_array met a JSON object frame
C6_Witness ==
    /\ result.op = "receive_json_array"
    /\ HeaderSeen
    /\ result.header[25] = MessageDataType_JSON_OBJECT
    /\ result.msg = InvalidDataTypeMsg
    /\ result.expected.value = Dict(<<120, 1>>)

(* C7: compressed-flag validity.  A receive never returns the body of a    *)
(* frame whose compressed flag byte is neither 0 nor 1.                    *)
C7_CompressedFlagValid ==
    (result.op \in ReceiveOps /\ result.status = "ok") => result.header[24] \in {0, 1}

\* the sends C8 is about: the argument has the wrong shape or cannot be encoded
C8_Rejected(res) ==
    \/ res.op = "send_json_array" /\ res.argument.t # "list"
    \/ res.op = "send_json_object" /\ res.argument.t # "dict"
    \/ /\ res.op = "send_string"
       /\ res.argument.t = "str"
       /\ \E i \in 1..Len(res.argument.items) : res.argument.items[i] \in 55296..57343

(* C8: rejected sends write nothing.  send_json_array of a non-list,       *)
(* send_json_object of a non-dict and send_string of a string with a       *)
(* character UTF-8 cannot encode raise MsgESSException without calling     *)
(* sendall: the stream is left as it was.                                  *)
C8_RejectedSendWritesNothing ==
    [][C8_Rejected(result')
         => /\ result'.status = "raised"
            /\ result'.exc = "MsgESSException"
            /\ result'.written = <<>>
            /\ stream' = stream]_vars

\* send_json_array was given a dict while a frame sat in the stream
C8_Witness ==
    /\ result.op = "send_json_array"
    /\ result.argument = Dict(<<120, 1>>)
    /\ result.status = "raised"
    /\ stream # <<>>

(* C9: single error surface.  Whatever a send or receive operation raises  *)
(* is a MsgESSException.                                                   *)
C9_OnlyMsgESSException == result.status = "raised" => result.exc = "MsgESSException"

\* the payload of a send: its argument as bytes, before compression
C10_Payload(res) ==
    IF res.op = "send_binary_data" THEN res.argument.items
    ELSE IF res.op = "send_string" THEN Utf8Encode(res.argument.items)
    ELSE Utf8Encode(JsonDumps(res.argument))

C10_Example ==
    <<77, 115, 103, 69, 83, 83, 98, 101, 103, 105, 110,
      0, 0, 0, 2,   0, 0, 0, 8,   0, 0, 0, 42,   0,   4,
      123, 34, 120, 34, 58, 32, 49, 125,
      77, 115, 103, 69, 83, 83, 101, 110, 100>>

C10_Layout(m, res, compressed) ==
    LET body == SubSeq(m, 26, Len(m) - 9) IN
    /\ Len(m) >= 34
    /\ SubSeq(m, 1, 11) = BEGIN_MAGIC
    /\ SubSeq(m, 12, 15) = VersionBytes
    /\ m[16] = 0 /\ m[17] = 0 /\ m[18] * 256 + m[19] = Len(body)
    /\ <<m[20] * 256 + m[21], m[22] * 256 + m[23]>> = res.argument_class
    /\ m[24] = (IF compressed THEN 1 ELSE 0)
    /\ m[25] = TagOf(res.op)
    /\ compressed => ZlibValid(body) /\ ZlibDecompress(body) = C10_Payload(res)
    /\ ~compressed => body = C10_Payload(res)
    /\ SubSeq(m, Len(m) - 8, Len(m)) = END_MAGIC

(* C10: wire layout.  What a send hands to sendall is one byte string:     *)
(* the begin marker, version 2, the length of the body as transmitted, the *)
(* message class (each 4 bytes big-endian), the compressed flag, the data  *)
(* type of the operation, the body and the end marker; the flag is 1       *)
(* exactly when compression is on, and then the body is the compressed     *)
(* payload.  send_json_object({"x": 1}, 42) without compression gives the  *)
(* frame C10_Example.                                                      *)
C10_WireLayout ==
    (result.op \in SendOps /\ result.written # <<>>)
    => /\ Len(result.written) = 1
       /\ C10_Layout(result.written[1], result, compress_messages)
       /\ (/\ result.op = "send_json_object"
           /\ result.argument = Dict(<<120, 1>>)
           /\ result.argument_class = Wide(42)
           /\ ~compress_messages)
            => result.written[1] = C10_Example

\* the example frame has been sent
C10_Witness ==
    /\ result.op = "send_json_object"
    /\ result.status = "ok"
    /\ result.written = <<C10_Example>>
    /\ stream = C10_Example

\* the frame the same send would have written under the other compression setting
C11_OtherFrame(res) ==
    LET payload == C10_Payload(res)
        body == IF compress_messages THEN payload
                ELSE ZlibCompress(payload, compression_level)
    IN  AssembleMessage(body, res.argument_class, ~compress_messages, TagOf(res.op))

(* C11: compression toggling.  The frame a send writes differs from the    *)
(* frame the same send writes under the other compression setting; a       *)
(* receive decompresses exactly when the frame's flag byte says so,        *)
(* whatever the receiver's own setting is at that time, and so returns the *)
(* bytes or the string that was sent from a compressed and from an         *)
(* uncompressed frame alike.                                               *)
C11_CompressionToggling ==
    /\ (/\ result.op \in SendOps
        /\ result.status = "ok"
        /\ ValidLevel(compression_level))
         => result.written[1] # C11_OtherFrame(result)
    /\ rx.pc = "footer" => ("decompress" \in rx.steps <=> rx.header[24] # 0)
    /\ (result.op \in ReceiveOps /\ result.status = "ok")
         => ("decompress" \in result.steps <=> result.header[24] # 0)
    /\ (/\ result.op \in {"receive_binary_data", "receive_string"}
        /\ result.aligned
        /\ result.expected.data_type = TagOf(result.op)
        /\ result.original_exception # "OSError")
         => /\ result.status = "ok"
            /\ result.value = result.expected.value
            /\ result.message_class = result.expected.message_class

\* a compressed frame was decoded by a receiver whose own compression is off
C11_Witness ==
    /\ result.op = "receive_string"
    /\ result.status = "ok"
    /\ result.aligned
    /\ result.value = Str(<<104, 233>>)
    /\ result.header[24] = 1
    /\ "decompress" \in result.steps
    /\ ~compress_messages

(* C12: compression settings frame.  set_message_compression(enabled)      *)
(* without a level sets the enabled flag and keeps the level; with a level *)
(* it sets both; it touches nothing that was already written.  No other    *)
(* operation, returning or raising, changes either setting, and a send     *)
(* writes its frame under the settings in force when it is called.         *)
C12_SettingsFrame ==
    [][/\ result'.op = "set_message_compression"
           => /\ compress_messages' = result'.argument.items[1]
              /\ compression_level' =
                    IF result'.argument.items[2] = <<>> THEN compression_level
                    ELSE result'.argument.items[2][1]
              /\ stream' = stream
              /\ inflight' = inflight
       /\ result'.op # "set_message_compression"
           => /\ compress_messages' = compress_messages
              /\ compression_level' = compression_level
       /\ (result'.op \in SendOps /\ result'.status = "ok")
           => /\ result'.written[1][24] = (IF compress_messages THEN 1 ELSE 0)
              /\ stream' = stream \o result'.written[1]]_vars

\* compression was turned off without a level: level 9, set earlier, stays, and
\* the compressed frame written before is still in the stream as it was
C12_Witness ==
    /\ result.op = "set_message_compression"
    /\ result.argument = Settings(FALSE, <<>>)
    /\ ~compress_messages
    /\ compression_level = 9
    /\ Len(stream) > HEADER_LENGTH
    /\ stream[24] = 1

\* the typed receive operations, met by a frame of their own type
C13_TypedReceive ==
    /\ result.op \in {"receive_string", "receive_json_array", "receive_json_object"}
    /\ result.aligned
    /\ result.expected.data_type = TagOf(result.op)
    /\ result.original_exception # "OSError"

C13_Unchanged ==
    /\ result.status = "ok"
    /\ result.value = result.expected.value
    /\ result.message_class = result.expected.message_class

\* the value is made of JSON's own types: every dict key is a string
C13_StringKeys(v) == v.t = "dict" => \A i \in 1..Len(v.items) : ~IsIntKey(v.items[i])

(* C13 as claimed: typed round trip.  receive_string returns the string    *)
(* and class send_string was given, and receive_json_array /               *)
(* receive_json_object return a value equal to every list or dict that     *)
(* send_json_array / send_json_object accepted, with the same class.       *)
C13_TypedRoundTrip == C13_TypedReceive => C13_Unchanged

(* C13 as amended: the same for every string, and for every accepted list  *)
(* or dict whose dict keys are all strings (an int key comes back as the   *)
(* string of its digits).                                                  *)
C13_TypedRoundTripStringKeys ==
    (C13_TypedReceive /\ C13_StringKeys(result.expected.value)) => C13_Unchanged

\* the spec's object {"x": 1} with class 42 came back from a compressed frame
C13_Witness ==
    /\ result.op = "receive_json_object"
    /\ result.status = "ok"
    /\ result.aligned
    /\ result.value = Dict(<<120, 1>>)
    /\ result.message_class = Wide(42)
    /\ result.steps = {"decompress", "utf8", "json"}

(* C14: close.  The exchange's close operation closes the socket it wraps, *)
(* or raises MsgESSException wrapping the socket's error.                  *)
C14_CloseClosesTransport ==
    result.op = "close_connection"
    => \/ result.status = "ok" /\ sock = "closed"
       \/ /\ result.status = "raised"
          /\ result.exc = "MsgESSException"
          /\ result.original_exception = "OSError"

\* the body length a header declares
C15_Declared(header) == Narrow(FromBytes4(SubSeq(header, 16, 19)))

\* the bytes of the frames written after the one a receive met
RECURSIVE C15_Pending(_)
C15_Pending(frames) ==
    IF frames = <<>> THEN 0 ELSE Head(frames).length + C15_Pending(Tail(frames))

(* C15 as claimed: data-type check after frame decode.  A receive that     *)
(* rejects a frame for its data type has read the whole frame first: the   *)
(* 25 header bytes, the body and the 9 footer bytes, and has found the end *)
(* marker right.                                                           *)
C15_DataTypeCheckAfterDecode ==
    (result.op \in ReceiveOps /\ result.msg = InvalidDataTypeMsg)
    => /\ result.footer = END_MAGIC
       /\ Len(result.body) = C15_Declared(result.header)
       /\ result.consumed = HEADER_LENGTH + Len(result.body) + FOOTER_LENGTH

(* C15 as amended: data-type check right after the header.  The data type  *)
(* is compared as soon as the 25 header bytes are read and marker and      *)
(* version found right, before any byte of the body or footer is read: a   *)
(* receive never waits for a body under a header of another data type, and *)
(* a frame rejected for its data type has had exactly its 25 header bytes  *)
(* consumed, its body and footer left in the stream.                       *)
C15_DataTypeCheckAfterHeader ==
    /\ rx.pc \in {"body", "footer"} => rx.header[25] = TagOf(rx.op)
    /\ (result.op \in ReceiveOps /\ result.msg = InvalidDataTypeMsg)
         => /\ result.status = "raised"
            /\ Len(result.header) = HEADER_LENGTH
            /\ SubSeq(result.header, 1, 11) = BEGIN_MAGIC
            /\ SubSeq(result.header, 12, 15) = VersionBytes
            /\ result.header[25] # TagOf(result.op)
            /\ result.consumed = HEADER_LENGTH
            /\ result.body = <<>> /\ result.footer = <<>>
            /\ result.aligned
                 => Len(stream) = result.expected.length - HEADER_LENGTH
                                  + C15_Pending(inflight)

\* receive_string rejected a binary frame whose body and footer are still unread
C15_Witness ==
    /\ result.op = "receive_string"
    /\ result.msg = InvalidDataTypeMsg
    /\ result.aligned
    /\ result.expected.value = Bytes(<<0, 255>>)
    /\ Len(stream) > FOOTER_LENGTH
    /\ SubSeq(stream, Len(stream) - 8, Len(stream)) = END_MAGIC

C16_DecompressFailedMsg == "Failed to decompress the received message's body!"

(* C16 as claimed: footer validation precedes decompression.  No           *)
(* decompression result exists while a receive still has footer bytes to   *)
(* read, and a receive that decompressed (or failed to) has read the 9     *)
(* footer bytes, 25 + bodyLength + 9 bytes in all.                         *)
C16_FooterBeforeDecompression ==
    /\ InLoop => "decompress" \notin rx.steps
    /\ (result.op \in ReceiveOps /\ "decompress" \in result.steps)
         => /\ Len(result.footer) = FOOTER_LENGTH
            /\ result.consumed = HEADER_LENGTH + Len(result.body) + FOOTER_LENGTH

(* C16 as amended: decompression precedes the footer.  The body of a frame *)
(* flagged as compressed is decompressed as soon as its bodyLength bytes   *)
(* are read, before any footer byte: a decompression failure is raised     *)
(* after exactly 25 + bodyLength bytes, the footer unread; only after a    *)
(* successful decompression (or for an unflagged frame) are the 9 footer   *)
(* bytes read and the end marker checked, so a receive that returns has    *)
(* read exactly 25 + bodyLength + 9 bytes.                                 *)
C16_DecompressionBeforeFooter ==
    /\ rx.pc = "footer"
         => /\ "decompress" \in rx.steps <=> rx.header[24] # 0
            /\ Len(rx.body) = C15_Declared(rx.header)
            /\ rx.consumed = HEADER_LENGTH + Len(rx.body) + Len(rx.data)
    /\ (result.op \in ReceiveOps /\ result.msg = C16_DecompressFailedMsg)
         => /\ result.status = "raised"
            /\ result.header[24] # 0
            /\ Len(result.body) = C15_Declared(result.header)
            /\ result.footer = <<>>
            /\ result.consumed = HEADER_LENGTH + Len(result.body)
    /\ (result.op \in ReceiveOps /\ result.status = "ok")
         => /\ result.footer = END_MAGIC
            /\ result.consumed = HEADER_LENGTH + Len(result.body) + FOOTER_LENGTH

\* a damaged compressed body was rejected with its end marker still in the stream
C16_Witness ==
    /\ result.op = "receive_binary_data"
    /\ result.msg = C16_DecompressFailedMsg
    /\ result.header[24] = 1
    /\ result.consumed = HEADER_LENGTH + 13
    /\ stream = END_MAGIC

\* the bytes a receive call has taken from the socket so far, in the order taken
C17_ReadSoFar(r) ==
    IF r.pc = "header" THEN r.data
    ELSE IF r.pc = "body" THEN r.header \o r.data
    ELSE r.header \o r.body \o r.data

\* the bytes the operation that returned last had taken
C17_Read(res) == res.header \o res.body \o res.footer

\* every count asked for is collected exactly
C17_Exact ==
    /\ InLoop => /\ rx.n > 0
                 /\ rx.bytes_left > 0
                 /\ rx.bytes_left = rx.n - Len(rx.data)
    /\ rx.pc \in {"body", "footer"} => Len(rx.header) = HEADER_LENGTH
    /\ rx.pc = "body" => rx.n = C15_Declared(rx.header)
    /\ rx.pc = "footer" => Len(rx.body) = C15_Declared(rx.header) /\ rx.n = FOOTER_LENGTH
    /\ (result.op \in ReceiveOps /\ result.status # "none")
         => /\ result.status = "ok"
            /\ Len(result.header) = HEADER_LENGTH
            /\ Len(result.body) = C15_Declared(result.header)
            /\ Len(result.footer) = FOOTER_LENGTH
            /\ result.consumed = HEADER_LENGTH + Len(result.body) + FOOTER_LENGTH

(* C17: exact byte accumulation.  With a transport that gives between 1    *)
(* byte and the number asked for, every recv is asked for min(16384, bytes *)
(* still missing) and so never gives more than that; what the call has     *)
(* collected is what it had plus the next bytes of the stream, in order,   *)
(* and the stream loses exactly those bytes; each count n (25, the         *)
(* declared body length, 9) is collected exactly, never a byte of the      *)
(* frame that follows; a count of 0 is satisfied without a recv, so a call *)
(* waiting in recv always has n > 0.                                       *)
C17_ExactAccumulation ==
    [][/\ (InLoop /\ Len(stream') < Len(stream))
           => LET k == Len(stream) - Len(stream')
                  after == IF rx'.pc = "idle" THEN C17_Read(result')
                           ELSE C17_ReadSoFar(rx')
              IN  /\ k <= Min(16384, rx.n - Len(rx.data))
                  /\ after = C17_ReadSoFar(rx) \o SubSeq(stream, 1, k)
                  /\ stream' = SubSeq(stream, k + 1, Len(stream))
       /\ C17_Exact']_vars

\* a frame with an empty body was returned, the frame after it untouched
C17_Witness ==
    /\ result.op = "receive_binary_data"
    /\ result.status = "ok"
    /\ result.body = <<>>
    /\ result.consumed = HEADER_LENGTH + FOOTER_LENGTH
    /\ inflight # <<>>
    /\ stream = RawFrame(GoodRaw)

\* whatever reached the frame parser has the length that was asked for
C18_PartsExact ==
    /\ rx.pc \in {"body", "footer"} => Len(rx.header) = HEADER_LENGTH
    /\ rx.pc = "footer" => Len(rx.body) = C15_Declared(rx.header)
    /\ result.header # <<>> => Len(result.header) = HEADER_LENGTH
    /\ result.body # <<>> => Len(result.body) = C15_Declared(result.header)
    /\ result.footer # <<>>
         => /\ Len(result.footer) = FOOTER_LENGTH
            /\ Len(result.body) = C15_Declared(result.header)

(* C18: misbehaving transport.  When a recv returns more bytes than were   *)
(* still missing, the loop ends with a collected length other than n and   *)
(* the receive raises RuntimeError at once, returning nothing: the         *)
(* over-long bytes never become a header, body or footer.  A recv that     *)
(* returns no more than was missing never has this effect, and a header,   *)
(* body or footer the parser gets always has exactly the length asked for. *)
C18_MisbehavingTransport ==
    [][/\ (InLoop /\ Len(stream') < Len(stream))
           => LET k == Len(stream) - Len(stream') IN
              /\ k > rx.bytes_left
                   => /\ rx'.pc = "idle"
                      /\ result'.op = rx.op
                      /\ result'.status = "raised"
                      /\ result'.exc = "RuntimeError"
                      /\ result'.value = NoValue
                      /\ result'.header = rx.header
                      /\ result'.body = rx.body
                      /\ result'.footer = rx.footer
              /\ k <= rx.bytes_left => result'.exc # "RuntimeError"
       /\ C18_PartsExact']_vars

\* a recv gave more than the missing body bytes and the receive failed fatally
C18_Witness ==
    /\ result.op = "receive_binary_data"
    /\ result.status = "raised"
    /\ result.exc = "RuntimeError"
    /\ Len(result.header) = HEADER_LENGTH
    /\ result.body = <<>>
    /\ result.consumed > HEADER_LENGTH + C15_Declared(result.header)

C19_ReceiveFailedMsg == "Failed to receive data from the socket!"

C19_SendFailedMsg == "Failed to send the message to the socket!"

(* C19: transport errors are wrapped and not retried.  The step in which   *)
(* recv raises OSError ends the receive: it raises MsgESSException with    *)
(* that OSError as original_exception, having taken no further byte; the   *)
(* step in which sendall raises OSError ends the send the same way, after  *)
(* that one sendall call and with nothing added to the stream.  An         *)
(* operation that is reported to have met an OSError is over.              *)
C19_TransportErrorsWrapped ==
    [][/\ (InLoop /\ sock' = "error")
           => /\ rx'.pc = "idle"
              /\ result'.op = rx.op
              /\ result'.status = "raised"
              /\ result'.exc = "MsgESSException"
              /\ result'.msg = C19_ReceiveFailedMsg
              /\ result'.original_exception = "OSError"
              /\ result'.consumed = rx.consumed
              /\ stream' = stream
       /\ (~InLoop /\ sock # "open" /\ result'.op \in SendOps /\ result'.written # <<>>)
           => /\ result'.status = "raised"
              /\ result'.exc = "MsgESSException"
              /\ result'.msg = C19_SendFailedMsg
              /\ result'.original_exception = "OSError"
              /\ Len(result'.written) = 1
              /\ stream' = stream
              /\ rx'.pc = "idle"
       /\ result'.original_exception = "OSError"
           => /\ result'.exc = "MsgESSException"
              /\ rx'.pc = "idle"]_vars

\* recv failed after part of a frame had been read: the receive is over
C19_Witness ==
    /\ result.op \in ReceiveOps
    /\ result.exc = "MsgESSException"
    /\ result.msg = C19_ReceiveFailedMsg
    /\ result.original_exception = "OSError"
    /\ result.consumed > HEADER_LENGTH
    /\ rx.pc = "idle"
    /\ sock = "error"

C20_InvalidFooterMsg == "The received message has an invalid footer!"

(* C20: concurrent receivers corrupt framing.  As long as no receive was   *)
(* called while another was in progress (the calls are serialized), every  *)
(* receive returns the oldest message not yet received, with its class,    *)
(* having consumed exactly that frame, and none fails.  (That two          *)
(* overlapping receives do split a frame between them and fail a           *)
(* structural check is the reachable state C20_Witness.)                   *)
C20_SerializedReceiversKeepFraming ==
    /\ (result.op \in ReceiveOps /\ result.aligned)
         => /\ result.status = "ok"
            /\ result.value = result.expected.value
            /\ result.message_class = result.expected.message_class
            /\ result.consumed = result.expected.length
    /\ (result.op \in ReceiveOps /\ result.status = "raised") => ~result.aligned
    /\ (InLoop /\ suspended.pc # "idle") => ~synced

\* two receives overlapped on a stream of well-formed frames: one took the
\* header of the first frame, the other took what followed for a header and
\* failed, and the first then failed on its footer
C20_Witness ==
    /\ result.op = "receive_binary_data"
    /\ result.status = "raised"
    /\ result.msg = C20_InvalidFooterMsg
    /\ SubSeq(result.header, 1, 11) = BEGIN_MAGIC
    /\ result.footer # END_MAGIC
    /\ ~result.aligned
    /\ rx.pc = "idle" /\ suspended.pc = "idle"

\* m is one whole frame: header, as many body bytes as it declares, footer
C21_WholeFrame(m) ==
    /\ Len(m) >= HEADER_LENGTH + FOOTER_LENGTH
    /\ SubSeq(m, 1, 11) = BEGIN_MAGIC
    /\ C15_Declared(SubSeq(m, 1, HEADER_LENGTH)) = Len(m) - HEADER_LENGTH - FOOTER_LENGTH
    /\ SubSeq(m, Len(m) - 8, Len(m)) = END_MAGIC

\* bytes is the frames of the sends that returned, whole, one after the other
RECURSIVE C21_FramesInOrder(_, _)
C21_FramesInOrder(bytes, sent) ==
    IF sent = <<>> THEN bytes = <<>>
    ELSE /\ Len(bytes) >= Head(sent).length
         /\ C21_WholeFrame(SubSeq(bytes, 1, Head(sent).length))
         /\ C21_FramesInOrder(SubSeq(bytes, Head(sent).length + 1, Len(bytes)),
                              Tail(sent))

(* C21: one write per message.  In every step in which a send operation    *)
(* returns or raises, sendall was called at most once, and then with one   *)
(* whole frame; a send that raises anything but the wrapped OSError of     *)
(* sendall made no sendall call and left the stream as it was; a send that *)
(* returns has added exactly its frame to the end of the stream; and the   *)
(* stream is always the whole frames of the sends so far, one after the    *)
(* other.                                                                  *)
C21_OneWritePerMessage ==
    [][/\ (result'.op \in SendOps /\ (result' # result \/ stream' # stream))
           => /\ Len(result'.written) <= 1
              /\ result'.written # <<>> => C21_WholeFrame(result'.written[1])
              /\ result'.status = "ok"
                   => /\ Len(result'.written) = 1
                      /\ stream' = stream \o result'.written[1]
              /\ result'.status = "raised" => stream' = stream
              /\ (result'.status = "raised" /\ result'.original_exception # "OSError")
                   => result'.written = <<>>
              /\ result'.written = <<>> => result'.status = "raised"
       /\ C21_FramesInOrder(stream', inflight')]_vars

\* a send was refused for its message class (2^32) after another send's frame
\* had been written: nothing was added to that frame
C21_Witness ==
    /\ result.op = "send_binary_data"
    /\ result.status = "raised"
    /\ result.exc = "OverflowError"
    /\ result.argument_class = <<65536, 0>>
    /\ result.written = <<>>
    /\ Len(inflight) = 1
    /\ Len(stream) = inflight[1].length
    /\ C21_WholeFrame(stream)

=============================================================================
